---- MODULE Spec2Model ----
(***************************************************************************)
(* Model of the research agent of symposium-crate-sources-proxy            *)
(* (src/symposium-crate-sources-proxy/src/research_agent.rs, fn run).      *)
(*                                                                         *)
(* One orchestration of `run` per research request.  The orchestrations    *)
(* share the set of active research sessions (ResearchState); everything   *)
(* else is local to one call of `run`.  The agent that answers the         *)
(* session and prompt requests, the sub-agent that calls                   *)
(* return_response_to_user, the caller that owns the receiving end of the  *)
(* reply channel and the runtime that may drop the future of `run` are     *)
(* the environment.                                                        *)
(***************************************************************************)
EXTENDS Naturals, Sequences, FiniteSets

\* ------------------------------------------------------------------ bounds
\* Most return_response_to_user calls made in one behaviour, all sub-agents
\* together.
MaxItems == 3

\* Most return_response_to_user calls of the one sub-agent that reports more
\* values than the channel holds.
MaxLoad == 33

\* Most ResearchState calls made in one behaviour of the registry alone.
MaxCalls == 3

\* ------------------------------------------------------- program constants
\* mpsc::channel::<serde_json::Value>(32)
ChannelCapacity == 32

\* ------------------------------------------------------------ input domains
\* The research requests handled concurrently, one call of run each.
Requests == {"r1", "r2"}

\* request.crate_name of each request (different subjects).
crate_name(r) == IF r = "r1" THEN "widgets" ELSE "gadgets"

\* The session id the agent assigns to the session of request r: ids are
\* opaque, assigned by the remote end and never reused.
NewSessionId(r) == IF r = "r1" THEN "sess-1" ELSE "sess-2"

\* serde_json::Value payloads a sub-agent reports: a JSON string, or a JSON
\* object with one string field.
Values ==
    { [t |-> "String", k |-> "", v |-> "found"],
      [t |-> "Object", k |-> "summary", v |-> "api" ] }

\* PromptResponse.stop_reason: the normal end of turn and abnormal ones.
StopReasons == {"EndTurn", "MaxTokens", "Cancelled"}

None == "None"

\* final_response before it is built: no text.
NoText == <<>>

VARIABLES
    pc,               \* where each call of run stands
    session_id,       \* session_id bound at line 54, None before
    active_sessions,  \* ResearchState: the registered session ids (shared)
    prompt_handle,    \* the spawned prompt task: unspawned, pending or its outcome
    response_rx,      \* content of the mpsc channel response_tx -> response_rx
    responses,        \* the Vec accumulated by the loop
    pushed,           \* history: every value the sub-agent enqueued, in order
    final_response,   \* the formatted string, NoText until it is built
    reply_rx,         \* the caller's end of request.response_tx: open, dropped,
                      \* or what the caller observed on it (received, closed)
    replies,          \* what was delivered on request.response_tx
    result,           \* what run returned: none yet, Ok or an Err
    calls,            \* history: the ResearchState calls each run made, in order
    response_tx,      \* the senders of the mpsc channel: alive or all dropped
    reply_tx          \* request.response_tx: held by run, sent or dropped

vars == <<pc, session_id, active_sessions, prompt_handle, response_rx,
          responses, pushed, final_response, reply_rx, replies, result,
          calls, response_tx, reply_tx>>

\* ------------------------------------------------ ResearchState (registry)
\* Variant: registering replaces the set by the new id.
register_session_Replaces(sessions, id) == {id}

\* state.register_session(&session_id)
register_session(sessions, id) == sessions \cup {id}

\* Variant: unregistering an absent id inserts it.
unregister_session_Toggles(sessions, id) ==
    IF id \in sessions THEN sessions \ {id} ELSE sessions \cup {id}

\* state.unregister_session(&session_id): removing an absent id changes nothing
unregister_session(sessions, id) == sessions \ {id}

\* state.is_research_session(&session_id): the membership test of the relay loop
is_research_session(sessions, id) == id \in sessions

\* ------------------------------------------------------------ serialization
\* Text is a sequence of tokens; white space and indentation are left out.
Quoted(s) == <<"\"", s, "\"">>

\* serde_json::to_string_pretty(&Value).  Serializing a Value cannot fail, so
\* the unwrap_or_else fallbacks of lines 118 and 123 are never taken.
to_string_pretty(val) ==
    IF val.t = "String"
    THEN Quoted(val.v)
    ELSE <<"{">> \o Quoted(val.k) \o <<":">> \o Quoted(val.v) \o <<"}">>

\* The elements of a JSON array, separated by commas.
RECURSIVE ArrayElements(_)
ArrayElements(items) ==
    IF items = <<>> THEN <<>>
    ELSE IF Len(items) = 1 THEN to_string_pretty(items[1])
    ELSE to_string_pretty(items[1]) \o <<",">> \o ArrayElements(Tail(items))

\* serde_json::to_string_pretty(&json!({ "responses": responses }))
to_string_pretty_responses(items) ==
    <<"{">> \o Quoted("responses") \o <<":", "[">>
        \o ArrayElements(items) \o <<"]", "}">>

\* Variant: the single-item case is missing, one value is wrapped as well.
FormatFinalResponse_AlwaysWraps(crate, items) ==
    IF items = <<>>
    THEN <<"Research completed for crate '", crate,
           "' but no responses were returned.">>
    ELSE to_string_pretty_responses(items)

\* The value of final_response, lines 111-124.
FormatFinalResponse(crate, items) ==
    IF items = <<>>
    THEN <<"Research completed for crate '", crate,
           "' but no responses were returned.">>
    ELSE IF Len(items) = 1
    THEN to_string_pretty(items[1])
    ELSE to_string_pretty_responses(items)

\* ------------------------------------------------------------------- state
\* The number of values enqueued so far on the channels of the requests in S.
RECURSIVE TotalPushed(_)
TotalPushed(S) ==
    IF S = {} THEN 0
    ELSE LET r == CHOOSE x \in S : TRUE
         IN Len(pushed[r]) + TotalPushed(S \ {r})

\* run no longer executes: it returned or its future was dropped.
Ended(r) == pc[r] \in {"returned", "cancelled"}

\* The outcomes of the prompt task that the select loop can observe.
PromptResolved(r) == prompt_handle[r] \notin {"unspawned", "pending"}

Init ==
    /\ pc = [r \in Requests |-> "start"]
    /\ session_id = [r \in Requests |-> None]
    /\ active_sessions = {}
    /\ prompt_handle = [r \in Requests |-> "unspawned"]
    /\ response_rx = [r \in Requests |-> <<>>]
    /\ responses = [r \in Requests |-> <<>>]
    /\ pushed = [r \in Requests |-> <<>>]
    /\ final_response = [r \in Requests |-> NoText]
    /\ reply_rx = [r \in Requests |-> "open"]
    /\ replies = [r \in Requests |-> <<>>]
    /\ result = [r \in Requests |-> None]
    /\ calls = [r \in Requests |-> <<>>]
    /\ response_tx = [r \in Requests |-> "alive"]
    /\ reply_tx = [r \in Requests |-> "held"]

\* ------------------------------------------------------------ steps of run
\* Lines 43-50 and 58: building the MCP registry or the session request fails
\* (with_rmcp_server, current_dir) and `?` returns the error.
SetupFails(r) ==
    /\ pc[r] = "start"
    /\ reply_tx' = [reply_tx EXCEPT ![r] = "dropped"]
    /\ pc' = [pc EXCEPT ![r] = "returned"]
    /\ result' = [result EXCEPT ![r] = "Err(setup)"]
    /\ UNCHANGED <<session_id, active_sessions, prompt_handle, response_rx,
                   responses, pushed, final_response, reply_rx, replies,
                   calls, response_tx>>

\* Lines 36-59: the channel and the registry are built and the
\* NewSessionRequest is sent; run suspends on its answer.
SendNewSession(r) ==
    /\ pc[r] = "start"
    /\ pc' = [pc EXCEPT ![r] = "await_session"]
    /\ UNCHANGED <<session_id, active_sessions, prompt_handle, response_rx,
                   responses, pushed, final_response, reply_rx, replies, result,
                   calls, response_tx, reply_tx>>

\* Lines 53-62: the agent answers with a NewSessionResponse.
SessionCreated(r) ==
    /\ pc[r] = "await_session"
    /\ session_id' = [session_id EXCEPT ![r] = NewSessionId(r)]
    /\ pc' = [pc EXCEPT ![r] = "created"]
    /\ UNCHANGED <<active_sessions, prompt_handle, response_rx, responses,
                   pushed, final_response, reply_rx, replies, result,
                   calls, response_tx, reply_tx>>

\* Variant: the failure of the session request is reported to the caller on
\* the reply channel before it is returned.
SessionCreationFailed_Replies(r) ==
    /\ pc[r] = "await_session"
    /\ reply_tx' = [reply_tx EXCEPT ![r] = "dropped"]
    /\ pc' = [pc EXCEPT ![r] = "returned"]
    /\ result' = [result EXCEPT ![r] = "Err(new_session)"]
    /\ replies' = [replies EXCEPT ![r] =
                      Append(@, FormatFinalResponse(crate_name(r), <<>>))]
    /\ UNCHANGED <<session_id, active_sessions, prompt_handle, response_rx,
                   responses, pushed, final_response, reply_rx,
                   calls, response_tx>>

\* Variant: the request, with its reply sender, outlives the failed call.
SessionCreationFailed_KeepsSender(r) ==
    /\ pc[r] = "await_session"
    /\ pc' = [pc EXCEPT ![r] = "returned"]
    /\ result' = [result EXCEPT ![r] = "Err(new_session)"]
    /\ UNCHANGED <<session_id, active_sessions, prompt_handle, response_rx,
                   responses, pushed, final_response, reply_rx, replies,
                   calls, response_tx, reply_tx>>

\* Line 60: the session request fails and `?` returns the error.
SessionCreationFailed(r) ==
    /\ pc[r] = "await_session"
    /\ reply_tx' = [reply_tx EXCEPT ![r] = "dropped"]
    /\ pc' = [pc EXCEPT ![r] = "returned"]
    /\ result' = [result EXCEPT ![r] = "Err(new_session)"]
    /\ UNCHANGED <<session_id, active_sessions, prompt_handle, response_rx,
                   responses, pushed, final_response, reply_rx, replies,
                   calls, response_tx>>

\* Variant: the registration is not made before the prompt is spawned.
RegisterSession_Late(r) ==
    /\ pc[r] = "created"
    /\ pc' = [pc EXCEPT ![r] = "registered"]
    /\ UNCHANGED <<session_id, active_sessions, prompt_handle, response_rx,
                   responses, pushed, final_response, reply_rx, replies, result,
                   calls, response_tx, reply_tx>>

\* Line 65: state.register_session(&session_id)
RegisterSession(r) ==
    /\ pc[r] = "created"
    /\ active_sessions' = register_session(active_sessions, session_id[r])
    /\ calls' = [calls EXCEPT ![r] = Append(@, <<"register", session_id[r]>>)]
    /\ pc' = [pc EXCEPT ![r] = "registered"]
    /\ UNCHANGED <<session_id, prompt_handle, response_rx, responses, pushed,
                   final_response, reply_rx, replies, result,
                   response_tx, reply_tx>>

\* Lines 68-81: the prompt request is sent from a spawned task; the loop is
\* entered with an empty responses vector.
SpawnPrompt(r) ==
    /\ pc[r] = "registered"
    /\ prompt_handle' = [prompt_handle EXCEPT ![r] = "pending"]
    /\ responses' = [responses EXCEPT ![r] = <<>>]
    /\ pc' = [pc EXCEPT ![r] = "select"]
    /\ UNCHANGED <<session_id, active_sessions, response_rx, pushed,
                   final_response, reply_rx, replies, result,
                   calls, response_tx, reply_tx>>

\* Variant: the received value is inserted at the front of responses.
SelectRecv_InsertFront(r) ==
    /\ pc[r] = "select"
    /\ response_rx[r] # <<>>
    /\ responses' = [responses EXCEPT ![r] = <<Head(response_rx[r])>> \o @]
    /\ response_rx' = [response_rx EXCEPT ![r] = Tail(@)]
    /\ UNCHANGED <<pc, session_id, active_sessions, prompt_handle, pushed,
                   final_response, reply_rx, replies, result,
                   calls, response_tx, reply_tx>>

\* Variant: the loop ends when recv() yields None (`None => break`).
SelectRecv_BreaksOnClose(r) ==
    /\ pc[r] = "select"
    /\ IF response_rx[r] # <<>>
       THEN /\ responses' = [responses EXCEPT ![r] =
                                 Append(@, Head(response_rx[r]))]
            /\ response_rx' = [response_rx EXCEPT ![r] = Tail(@)]
            /\ UNCHANGED pc
       ELSE /\ response_tx[r] = "dropped"
            /\ pc' = [pc EXCEPT ![r] = "unregister"]
            /\ UNCHANGED <<responses, response_rx>>
    /\ UNCHANGED <<session_id, active_sessions, prompt_handle, pushed,
                   final_response, reply_rx, replies, result,
                   calls, response_tx, reply_tx>>

\* Variant: the channel is only read once the prompt has resolved.
SelectRecv_AfterPrompt(r) ==
    /\ pc[r] = "select"
    /\ PromptResolved(r)
    /\ response_rx[r] # <<>>
    /\ responses' = [responses EXCEPT ![r] = Append(@, Head(response_rx[r]))]
    /\ response_rx' = [response_rx EXCEPT ![r] = Tail(@)]
    /\ UNCHANGED <<pc, session_id, active_sessions, prompt_handle, pushed,
                   final_response, reply_rx, replies, result,
                   calls, response_tx, reply_tx>>

\* Lines 87-90: the recv branch of select! takes the oldest queued value.
SelectRecv(r) ==
    /\ pc[r] = "select"
    /\ response_rx[r] # <<>>
    /\ responses' = [responses EXCEPT ![r] = Append(@, Head(response_rx[r]))]
    /\ response_rx' = [response_rx EXCEPT ![r] = Tail(@)]
    /\ UNCHANGED <<pc, session_id, active_sessions, prompt_handle, pushed,
                   final_response, reply_rx, replies, result,
                   calls, response_tx, reply_tx>>

\* Variant: an error answer to the prompt ends the loop like a stop reason.
SelectPrompt_AcceptsError(r) ==
    /\ pc[r] = "select"
    /\ PromptResolved(r)
    /\ IF prompt_handle[r] = "JoinError"
       THEN /\ pc' = [pc EXCEPT ![r] = "returned"]
            /\ result' = [result EXCEPT ![r] = "Err(internal_error)"]
            /\ response_rx' = [response_rx EXCEPT ![r] = <<>>]
            /\ reply_tx' = [reply_tx EXCEPT ![r] = "dropped"]
       ELSE /\ pc' = [pc EXCEPT ![r] = "unregister"]
            /\ UNCHANGED <<result, response_rx, reply_tx>>
    /\ UNCHANGED <<session_id, active_sessions, prompt_handle, responses,
                   pushed, final_response, reply_rx, replies,
                   calls, response_tx>>

\* Variant: only the stop reason EndTurn ends the loop normally, any other
\* is returned as an error.
SelectPrompt_OnlyEndTurn(r) ==
    /\ pc[r] = "select"
    /\ PromptResolved(r)
    /\ IF prompt_handle[r] = "EndTurn"
       THEN /\ pc' = [pc EXCEPT ![r] = "unregister"]
            /\ UNCHANGED <<result, response_rx, reply_tx>>
       ELSE /\ pc' = [pc EXCEPT ![r] = "returned"]
            /\ result' = [result EXCEPT ![r] =
                   IF prompt_handle[r] = "Err" THEN "Err(prompt)"
                   ELSE "Err(internal_error)"]
            /\ response_rx' = [response_rx EXCEPT ![r] = <<>>]
            /\ reply_tx' = [reply_tx EXCEPT ![r] = "dropped"]
    /\ UNCHANGED <<session_id, active_sessions, prompt_handle, responses,
                   pushed, final_response, reply_rx, replies,
                   calls, response_tx>>

\* Lines 92-103: the prompt branch of select!.  A JoinError becomes
\* internal_error and an error response is returned as it is, both by `?`;
\* a PromptResponse with any stop reason breaks out of the loop.  select!
\* without `biased` may take this branch while values are still queued.
\* When run returns its locals are dropped, response_rx with what it holds.
SelectPrompt(r) ==
    /\ pc[r] = "select"
    /\ PromptResolved(r)
    /\ IF prompt_handle[r] = "JoinError"
       THEN /\ pc' = [pc EXCEPT ![r] = "returned"]
            /\ result' = [result EXCEPT ![r] = "Err(internal_error)"]
            /\ response_rx' = [response_rx EXCEPT ![r] = <<>>]
            /\ reply_tx' = [reply_tx EXCEPT ![r] = "dropped"]
       ELSE IF prompt_handle[r] = "Err"
       THEN /\ pc' = [pc EXCEPT ![r] = "returned"]
            /\ result' = [result EXCEPT ![r] = "Err(prompt)"]
            /\ response_rx' = [response_rx EXCEPT ![r] = <<>>]
            /\ reply_tx' = [reply_tx EXCEPT ![r] = "dropped"]
       ELSE /\ pc' = [pc EXCEPT ![r] = "unregister"]
            /\ UNCHANGED <<result, response_rx, reply_tx>>
    /\ UNCHANGED <<session_id, active_sessions, prompt_handle, responses,
                   pushed, final_response, reply_rx, replies,
                   calls, response_tx>>

\* Variant: the id is not removed before the reply is sent.
UnregisterSession_Deferred(r) ==
    /\ pc[r] = "unregister"
    /\ pc' = [pc EXCEPT ![r] = "reply"]
    /\ UNCHANGED <<session_id, active_sessions, prompt_handle, response_rx,
                   responses, pushed, final_response, reply_rx, replies, result,
                   calls, response_tx, reply_tx>>

\* Variant: the cleanup empties the set of active sessions.
UnregisterSession_ClearsAll(r) ==
    /\ pc[r] = "unregister"
    /\ active_sessions' = {}
    /\ calls' = [calls EXCEPT ![r] = Append(@, <<"unregister", session_id[r]>>)]
    /\ pc' = [pc EXCEPT ![r] = "reply"]
    /\ UNCHANGED <<session_id, prompt_handle, response_rx, responses, pushed,
                   final_response, reply_rx, replies, result,
                   response_tx, reply_tx>>

\* Line 108: state.unregister_session(&session_id)
UnregisterSession(r) ==
    /\ pc[r] = "unregister"
    /\ active_sessions' = unregister_session(active_sessions, session_id[r])
    /\ calls' = [calls EXCEPT ![r] = Append(@, <<"unregister", session_id[r]>>)]
    /\ pc' = [pc EXCEPT ![r] = "reply"]
    /\ UNCHANGED <<session_id, prompt_handle, response_rx, responses, pushed,
                   final_response, reply_rx, replies, result,
                   response_tx, reply_tx>>

\* Variant: the outcome of the oneshot send is discarded.
SendFinalResponse_IgnoresSendError(r) ==
    /\ pc[r] = "reply"
    /\ final_response' = [final_response EXCEPT ![r] =
                             FormatFinalResponse(crate_name(r), responses[r])]
    /\ IF reply_rx[r] = "open"
       THEN replies' = [replies EXCEPT ![r] = Append(@, final_response'[r])]
       ELSE UNCHANGED replies
    /\ result' = [result EXCEPT ![r] = "Ok"]
    /\ reply_tx' = [reply_tx EXCEPT ![r] = "sent"]
    /\ pc' = [pc EXCEPT ![r] = "returned"]
    /\ response_rx' = [response_rx EXCEPT ![r] = <<>>]
    /\ UNCHANGED <<session_id, active_sessions, prompt_handle, responses,
                   pushed, reply_rx,
                   calls, response_tx>>

\* Lines 111-131: final_response is formatted and sent on
\* request.response_tx.  The oneshot send fails when the receiver is gone,
\* and the failure is returned as internal_error.
SendFinalResponse(r) ==
    /\ pc[r] = "reply"
    /\ final_response' = [final_response EXCEPT ![r] =
                             FormatFinalResponse(crate_name(r), responses[r])]
    /\ IF reply_rx[r] = "open"
       THEN /\ replies' = [replies EXCEPT ![r] = Append(@, final_response'[r])]
            /\ result' = [result EXCEPT ![r] = "Ok"]
       ELSE /\ result' = [result EXCEPT ![r] = "Err(internal_error)"]
            /\ UNCHANGED replies
    /\ reply_tx' = [reply_tx EXCEPT ![r] = "sent"]
    /\ pc' = [pc EXCEPT ![r] = "returned"]
    /\ response_rx' = [response_rx EXCEPT ![r] = <<>>]
    /\ UNCHANGED <<session_id, active_sessions, prompt_handle, responses,
                   pushed, reply_rx,
                   calls, response_tx>>

\* The future of run is dropped at one of its suspension points (line 60 or
\* the select! of line 85): nothing after that point runs.  The locals are
\* dropped; the spawned prompt task is detached and keeps running.
Cancel(r) ==
    /\ pc[r] \in {"await_session", "select"}
    /\ reply_tx' = [reply_tx EXCEPT ![r] = "dropped"]
    /\ pc' = [pc EXCEPT ![r] = "cancelled"]
    /\ response_rx' = [response_rx EXCEPT ![r] = <<>>]
    /\ UNCHANGED <<session_id, active_sessions, prompt_handle, responses,
                   pushed, final_response, reply_rx, replies, result,
                   calls, response_tx>>

\* ------------------------------------------------------------- environment
\* The sub-agent calls return_response_to_user during its prompt turn: the
\* value is sent on response_tx (line 49).  A sender waits while the channel
\* is full and fails once the receiver is dropped.
SendOnResponseTx(r, val, limit) ==
    /\ prompt_handle[r] = "pending"
    /\ ~Ended(r)
    /\ response_tx[r] = "alive"
    /\ TotalPushed(Requests) < limit
    /\ Len(response_rx[r]) < ChannelCapacity
    /\ response_rx' = [response_rx EXCEPT ![r] = Append(@, val)]
    /\ pushed' = [pushed EXCEPT ![r] = Append(@, val)]
    /\ UNCHANGED <<pc, session_id, active_sessions, prompt_handle, responses,
                   final_response, reply_rx, replies, result,
                   calls, response_tx, reply_tx>>

\* Variant: one channel is shared by all the requests.
ReturnResponseToUser_SharedChannel(r, val) ==
    /\ prompt_handle[r] = "pending"
    /\ ~Ended(r)
    /\ response_tx[r] = "alive"
    /\ TotalPushed(Requests) < MaxItems
    /\ Len(response_rx["r1"]) < ChannelCapacity
    /\ response_rx' = [response_rx EXCEPT !["r1"] = Append(@, val)]
    /\ pushed' = [pushed EXCEPT ![r] = Append(@, val)]
    /\ UNCHANGED <<pc, session_id, active_sessions, prompt_handle, responses,
                   final_response, reply_rx, replies, result,
                   calls, response_tx, reply_tx>>

\* The reports of the sub-agents of the concurrent requests, any value.
ReturnResponseToUser(r, val) == SendOnResponseTx(r, val, MaxItems)

\* Line 77: the prompt request is answered with a PromptResponse.
PromptCompletes(r, stop_reason) ==
    /\ prompt_handle[r] = "pending"
    /\ prompt_handle' = [prompt_handle EXCEPT ![r] = stop_reason]
    /\ UNCHANGED <<pc, session_id, active_sessions, response_rx, responses,
                   pushed, final_response, reply_rx, replies, result,
                   calls, response_tx, reply_tx>>

\* Line 77: the prompt request is answered with an error.
PromptFails(r) ==
    /\ prompt_handle[r] = "pending"
    /\ prompt_handle' = [prompt_handle EXCEPT ![r] = "Err"]
    /\ UNCHANGED <<pc, session_id, active_sessions, response_rx, responses,
                   pushed, final_response, reply_rx, replies, result,
                   calls, response_tx, reply_tx>>

\* Lines 75-78: the spawned task panics or is aborted; awaiting its
\* JoinHandle yields a JoinError.
PromptTaskFails(r) ==
    /\ prompt_handle[r] = "pending"
    /\ prompt_handle' = [prompt_handle EXCEPT ![r] = "JoinError"]
    /\ UNCHANGED <<pc, session_id, active_sessions, response_rx, responses,
                   pushed, final_response, reply_rx, replies, result,
                   calls, response_tx, reply_tx>>

\* The caller drops the receiving end of the reply channel before a reply.
CallerDropsReceiver(r) ==
    /\ ~Ended(r)
    /\ reply_rx[r] = "open"
    /\ reply_rx' = [reply_rx EXCEPT ![r] = "dropped"]
    /\ UNCHANGED <<pc, session_id, active_sessions, prompt_handle, response_rx,
                   responses, pushed, final_response, replies, result,
                   calls, response_tx, reply_tx>>

\* Every clone of response_tx (line 49) is dropped while the loop runs: the
\* MCP services that hold them are gone.  recv() then yields the queued
\* values and after them None, for which the pattern `Some(response)` of
\* line 87 disables the branch: the loop only waits for the prompt.
SendersDropped(r) ==
    /\ pc[r] = "select"
    /\ response_tx[r] = "alive"
    /\ response_tx' = [response_tx EXCEPT ![r] = "dropped"]
    /\ UNCHANGED <<pc, session_id, active_sessions, prompt_handle, response_rx,
                   responses, pushed, final_response, reply_rx, replies, result,
                   calls, reply_tx>>

\* The caller, waiting on the reply channel, receives the reply.
CallerReceives(r) ==
    /\ reply_rx[r] = "open"
    /\ replies[r] # <<>>
    /\ reply_rx' = [reply_rx EXCEPT ![r] = "received"]
    /\ UNCHANGED <<pc, session_id, active_sessions, prompt_handle, response_rx,
                   responses, pushed, final_response, replies, result,
                   calls, response_tx, reply_tx>>

\* The caller, waiting on the reply channel, finds that request.response_tx
\* was dropped without a reply.
CallerSeesClosed(r) ==
    /\ reply_rx[r] = "open"
    /\ replies[r] = <<>>
    /\ reply_tx[r] = "dropped"
    /\ reply_rx' = [reply_rx EXCEPT ![r] = "closed"]
    /\ UNCHANGED <<pc, session_id, active_sessions, prompt_handle, response_rx,
                   responses, pushed, final_response, replies, result,
                   calls, response_tx, reply_tx>>

Next ==
    \E r \in Requests :
        \/ SetupFails(r)
        \/ SendNewSession(r)
        \/ SessionCreated(r)
        \/ SessionCreationFailed(r)
        \/ RegisterSession(r)
        \/ SpawnPrompt(r)
        \/ SelectRecv(r)
        \/ SelectPrompt(r)
        \/ UnregisterSession(r)
        \/ SendFinalResponse(r)
        \/ Cancel(r)
        \/ \E val \in Values : ReturnResponseToUser(r, val)
        \/ \E stop_reason \in StopReasons : PromptCompletes(r, stop_reason)
        \/ PromptFails(r)
        \/ PromptTaskFails(r)
        \/ CallerDropsReceiver(r)

Spec == Init /\ [][Next]_vars

\* ------------------------------------------------- one request under load
\* One request whose sub-agent reports more values than the channel holds,
\* with the senders and the caller's end of the reply channel followed to
\* the end.
LoadRequests == {"r1"}

LoadValue == [t |-> "String", k |-> "", v |-> "found"]

\* The reports of the sub-agent under load.
ReturnResponseUnderLoad(r) == SendOnResponseTx(r, LoadValue, MaxLoad)

NextLoad ==
    \E r \in LoadRequests :
        \/ SetupFails(r)
        \/ SendNewSession(r)
        \/ SessionCreated(r)
        \/ SessionCreationFailed(r)
        \/ RegisterSession(r)
        \/ SpawnPrompt(r)
        \/ SelectRecv(r)
        \/ SelectPrompt(r)
        \/ UnregisterSession(r)
        \/ SendFinalResponse(r)
        \/ Cancel(r)
        \/ ReturnResponseUnderLoad(r)
        \/ \E stop_reason \in StopReasons : PromptCompletes(r, stop_reason)
        \/ PromptFails(r)
        \/ PromptTaskFails(r)
        \/ CallerDropsReceiver(r)
        \/ SendersDropped(r)
        \/ CallerReceives(r)
        \/ CallerSeesClosed(r)

\* The runtime keeps polling the task of run: each branch of select! that
\* is ready is taken sooner or later (the branch is picked at random among
\* the ready ones) and the straight-line code after the loop runs.  A
\* caller that waits on the reply channel is woken when the sender is used
\* or dropped.
FairLoad ==
    \A r \in LoadRequests :
        /\ WF_vars(SelectRecv(r))
        /\ WF_vars(SelectPrompt(r))
        /\ WF_vars(UnregisterSession(r))
        /\ WF_vars(SendFinalResponse(r))
        /\ WF_vars(CallerReceives(r))
        /\ WF_vars(CallerSeesClosed(r))

SpecLoad == Init /\ [][NextLoad]_vars /\ FairLoad

\* ------------------------------------------------- the registry by itself
\* ResearchState called by its clients in any order and with any session id,
\* one call at a time: ids of the requests and one id no request has.
Handles == {NewSessionId(r) : r \in Requests} \cup {"sess-other"}

RECURSIVE TotalCalls(_)
TotalCalls(S) ==
    IF S = {} THEN 0
    ELSE LET r == CHOOSE x \in S : TRUE
         IN Len(calls[r]) + TotalCalls(S \ {r})

CallRegister(r, id) ==
    /\ TotalCalls(Requests) < MaxCalls
    /\ active_sessions' = register_session(active_sessions, id)
    /\ calls' = [calls EXCEPT ![r] = Append(@, <<"register", id>>)]
    /\ UNCHANGED <<pc, session_id, prompt_handle, response_rx, responses,
                   pushed, final_response, reply_rx, replies, result,
                   response_tx, reply_tx>>

CallUnregister(r, id) ==
    /\ TotalCalls(Requests) < MaxCalls
    /\ active_sessions' = unregister_session(active_sessions, id)
    /\ calls' = [calls EXCEPT ![r] = Append(@, <<"unregister", id>>)]
    /\ UNCHANGED <<pc, session_id, prompt_handle, response_rx, responses,
                   pushed, final_response, reply_rx, replies, result,
                   response_tx, reply_tx>>

NextRegistry ==
    \E r \in Requests, id \in Handles :
        \/ CallRegister(r, id)
        \/ CallUnregister(r, id)

SpecRegistry == Init /\ [][NextRegistry]_vars

\* ---------------------------------------------------------------- reading
\* A reader of the reply text, used to state what a reply contains.
IsPrefix(s, t) == Len(s) <= Len(t) /\ SubSeq(t, 1, Len(s)) = s

Invalid == [t |-> "Invalid", k |-> "", v |-> ""]

\* The number of tokens of the JSON value that starts a text.
ValueLen(text) == IF text[1] = "{" THEN 9 ELSE 3

\* The JSON value a text spells, Invalid when it spells none.
ParseValue(text) ==
    IF Len(text) = 3 /\ text[1] = "\"" /\ text[3] = "\""
    THEN [t |-> "String", k |-> "", v |-> text[2]]
    ELSE IF /\ Len(text) = 9
            /\ SubSeq(text, 1, 2) = <<"{", "\"">>
            /\ SubSeq(text, 4, 6) = <<"\"", ":", "\"">>
            /\ SubSeq(text, 8, 9) = <<"\"", "}">>
    THEN [t |-> "Object", k |-> text[3], v |-> text[7]]
    ELSE Invalid

\* The values of a comma-separated list, in order.
RECURSIVE ParseElements(_)
ParseElements(text) ==
    IF text = <<>> THEN <<>>
    ELSE IF Len(text) < ValueLen(text) THEN <<Invalid>>
    ELSE LET n == ValueLen(text)
             first == ParseValue(SubSeq(text, 1, n))
         IN IF Len(text) = n THEN <<first>>
            ELSE IF text[n + 1] # "," \/ Len(text) = n + 1 THEN <<first, Invalid>>
            ELSE <<first>> \o ParseElements(SubSeq(text, n + 2, Len(text)))

\* The text is one JSON object whose only field is "responses", an array.
IsEnvelope(text) ==
    /\ Len(text) >= 8
    /\ SubSeq(text, 1, 6) = <<"{", "\"", "responses", "\"", ":", "[">>
    /\ SubSeq(text, Len(text) - 1, Len(text)) = <<"]", "}">>

EnvelopeItems(text) == ParseElements(SubSeq(text, 7, Len(text) - 2))

\* The text is the sentence sent when nothing was collected, naming crate.
IsNoResponses(text, crate) ==
    /\ Len(text) = 3
    /\ text[1] = "Research completed for crate '"
    /\ text[2] = crate
    /\ text[3] = "' but no responses were returned."

\* The values a reply text carries, in order.
ItemsOf(text, crate) ==
    IF IsNoResponses(text, crate) THEN <<>>
    ELSE IF IsEnvelope(text) THEN EnvelopeItems(text)
    ELSE <<ParseValue(text)>>

Registered(r) == is_research_session(active_sessions, session_id[r])

\* ------------------------------------------------------------------ claims

\* C1: for every run whose session was created, once run has returned (normal
\* completion, prompt error, join failure, reply channel closed) its session
\* id is absent from the active sessions.
C1_UnregisteredAfterReturn ==
    \A r \in Requests :
        (pc[r] = "returned" /\ session_id[r] # None) => ~Registered(r)

\* C2: every value enqueued before the prompt completion is observed is in
\* the reply: the reply is the text for exactly the values that were
\* enqueued.
C2_ReplyHasEveryEnqueuedValue ==
    \A r \in Requests :
        replies[r] # <<>> =>
            replies[r][1] = FormatFinalResponse(crate_name(r), pushed[r])

\* C3: when run is cancelled at a suspension point after the registration,
\* its session id is removed from the active sessions.
C3_UnregisteredAfterCancel ==
    \A r \in Requests : pc[r] = "cancelled" => ~Registered(r)

\* C4: the session id is registered before the prompt request is issued and
\* stays registered in every state in which the prompt is outstanding.
C4_RegisteredWhilePromptOutstanding ==
    \A r \in Requests :
        /\ prompt_handle[r] = "pending" => Registered(r)
        /\ prompt_handle[r] # "unspawned" => session_id[r] # None

C4_Witness ==
    \E r \in Requests :
        /\ prompt_handle[r] = "pending"
        /\ pc[r] = "select"
        /\ Registered(r)

\* C5: when the session request fails, run returns the error, no session id
\* of this request was registered and nothing was sent on the reply channel.
C5_SessionCreationFailedTouchesNothing ==
    \A r \in Requests :
        result[r] = "Err(new_session)" =>
            /\ pc[r] = "returned"
            /\ session_id[r] = None
            /\ ~is_research_session(active_sessions, NewSessionId(r))
            /\ final_response[r] = NoText
            /\ replies[r] = <<>>

C5_Witness ==
    \E r \in Requests :
        /\ result[r] = "Err(new_session)"
        /\ active_sessions # {}

\* C6: when run returns Ok, exactly one reply was sent and it is the text
\* formatted from the collected responses; no run sends more than one reply.
C6_ExactlyOneReplyOnSuccess ==
    \A r \in Requests :
        /\ Len(replies[r]) <= 1
        /\ result[r] = "Ok" =>
              /\ Len(replies[r]) = 1
              /\ ItemsOf(replies[r][1], crate_name(r)) = responses[r]

C6_Witness ==
    \E r \in Requests :
        /\ result[r] = "Ok"
        /\ Len(replies[r]) = 1
        /\ responses[r] # <<>>

\* C7: when the prompt request fails, or the prompt task fails to join,
\* after the session was created, run returns an error, formats no final
\* response and sends no reply.
C7_PromptFailureSendsNoReply ==
    \A r \in Requests :
        (pc[r] = "returned" /\ prompt_handle[r] \in {"Err", "JoinError"}) =>
            /\ result[r] \in {"Err(prompt)", "Err(internal_error)"}
            /\ final_response[r] = NoText
            /\ replies[r] = <<>>

C7_Witness ==
    \E r \in Requests :
        /\ pc[r] = "returned"
        /\ prompt_handle[r] = "Err"
        /\ session_id[r] # None
        /\ responses[r] # <<>>

\* C8: the final response of no responses is the fixed sentence naming the
\* crate; of one response it is that value alone, not wrapped; of two or
\* more it is all of them, each once, under the single field "responses".
C8_FinalResponseByCount ==
    \A r \in Requests :
        final_response[r] # NoText =>
            LET text == final_response[r]
                n == Len(responses[r])
            IN /\ n = 0 => IsNoResponses(text, crate_name(r))
               /\ n = 1 => /\ ParseValue(text) = responses[r][1]
                           /\ ~IsEnvelope(text)
               /\ n >= 2 => /\ IsEnvelope(text)
                            /\ EnvelopeItems(text) = responses[r]

C8_Witness ==
    /\ \E r \in Requests : final_response[r] # NoText /\ Len(responses[r]) >= 2
    /\ \E r \in Requests : final_response[r] # NoText /\ Len(responses[r]) < 2

\* C9: responses is always a prefix of the values enqueued on this run's
\* channel, with nothing between it and the queue missing, and the final
\* response lists the values in that order.
C9_ResponsesPrefixOfPushed ==
    \A r \in Requests :
        /\ IsPrefix(responses[r], pushed[r])
        /\ pc[r] = "select" => responses[r] \o response_rx[r] = pushed[r]
        /\ final_response[r] # NoText =>
              IsPrefix(ItemsOf(final_response[r], crate_name(r)), pushed[r])

C9_Witness ==
    \E r \in Requests :
        /\ Len(responses[r]) >= 2
        /\ responses[r][1] # responses[r][2]
        /\ final_response[r] # NoText

\* C10: when the caller dropped the receiver before the reply is sent, run
\* does not return the failed send as an error, and the session id has been
\* unregistered.
C10_ClosedReplyChannelIsSuccess ==
    \A r \in Requests :
        (pc[r] = "returned" /\ final_response[r] # NoText
            /\ reply_rx[r] = "dropped") =>
            /\ result[r] = "Ok"
            /\ ~Registered(r)

\* C11: for every stop reason of a completed prompt, run leaves the loop,
\* unregisters, formats the collected responses and sends the reply; the
\* outcome is the same for every stop reason (run fails only when the send
\* itself fails because the caller dropped the receiver).
C11_AnyStopReasonReplies ==
    \A r \in Requests :
        prompt_handle[r] \in StopReasons =>
            /\ pc[r] \in {"select", "unregister", "reply", "returned", "cancelled"}
            /\ result[r] \notin {"Err(prompt)", "Err(setup)", "Err(new_session)"}
            /\ pc[r] = "returned" =>
                  /\ ~Registered(r)
                  /\ final_response[r] # NoText
                  /\ ItemsOf(final_response[r], crate_name(r)) = responses[r]
                  /\ IF reply_rx[r] = "dropped"
                     THEN replies[r] = <<>>
                     ELSE result[r] = "Ok" /\ replies[r] = <<final_response[r]>>

C11_Witness ==
    \E r \in Requests :
        /\ prompt_handle[r] \in StopReasons \ {"EndTurn"}
        /\ pc[r] = "returned"
        /\ result[r] = "Ok"
        /\ replies[r] # <<>>

\* C12: with two runs at once, what a run holds (its queue, its responses,
\* its reply) comes from the values enqueued on its own channel only, and a
\* reply without values names the run's own crate.
C12_NoCrossTalk ==
    \A r \in Requests :
        /\ Len(responses[r]) + Len(response_rx[r]) <= Len(pushed[r])
        /\ \A i \in 1..Len(responses[r]) : responses[r][i] = pushed[r][i]
        /\ replies[r] # <<>> =>
              /\ Len(ItemsOf(replies[r][1], crate_name(r))) <= Len(pushed[r])
              /\ \A s \in Requests :
                    IsNoResponses(replies[r][1], crate_name(s)) => s = r

\* C12 (the mid-flight state): both session ids are registered at once, each
\* run in its loop with values of its own.
C12_Witness ==
    /\ \A r \in Requests :
          /\ pc[r] = "select"
          /\ Registered(r)
          /\ responses[r] # <<>>
    /\ Cardinality(active_sessions) = Cardinality(Requests)

OwnCallsOnly(r) ==
    \/ calls[r] = <<>>
    \/ /\ session_id[r] # None
       /\ \/ calls[r] = <<<<"register", session_id[r]>>>>
          \/ calls[r] = <<<<"register", session_id[r]>>,
                          <<"unregister", session_id[r]>>>>

\* C18: a run registers and unregisters its own session id only: the
\* membership of a session id changes only in a step in which its own run
\* calls ResearchState, no other run's calls change in that step, and each
\* run makes at most one register followed by at most one unregister.
C18_OwnHandleOnly ==
    [][\A r \in Requests :
          /\ OwnCallsOnly(r)'
          /\ (is_research_session(active_sessions, NewSessionId(r))
                 # is_research_session(active_sessions', NewSessionId(r)))
             => /\ calls'[r] # calls[r]
                /\ \A s \in Requests \ {r} : calls'[s] = calls[s]]_vars

C18_Witness ==
    \E r, s \in Requests :
        /\ r # s
        /\ Len(calls[r]) = 2
        /\ pc[s] = "select"
        /\ Registered(s)

\* C15: the loop is left only when the prompt has resolved: while the prompt
\* is outstanding, whatever was received and whether or not the senders are
\* all dropped, run stays in the loop, registered, with no reply sent.
C15_LoopExitsOnlyOnPrompt ==
    \A r \in LoadRequests :
        /\ pc[r] \in {"unregister", "reply"} => PromptResolved(r)
        /\ (pc[r] = "returned" /\ session_id[r] # None) => PromptResolved(r)
        /\ (prompt_handle[r] = "pending" /\ pc[r] # "cancelled") =>
              /\ pc[r] = "select"
              /\ Registered(r)
              /\ calls[r] = <<<<"register", session_id[r]>>>>
              /\ final_response[r] = NoText
              /\ replies[r] = <<>>

C15_Witness ==
    \E r \in LoadRequests :
        /\ pc[r] = "select"
        /\ prompt_handle[r] = "pending"
        /\ response_tx[r] = "dropped"
        /\ response_rx[r] = <<>>
        /\ responses[r] # <<>>

\* C16: a full channel does not stay full (the loop takes a value, so the
\* blocked sender is let in), and once the prompt has resolved the loop is
\* left and run ends, values still queued or not.
C16_NoDeadlockNoStarvation ==
    \A r \in LoadRequests :
        /\ (Len(response_rx[r]) = ChannelCapacity)
              ~> (Len(response_rx[r]) < ChannelCapacity)
        /\ (pc[r] = "select" /\ PromptResolved(r)) ~> Ended(r)

C16_Witness ==
    \E r \in LoadRequests :
        /\ Len(pushed[r]) > ChannelCapacity
        /\ responses[r] = pushed[r]
        /\ result[r] = "Ok"

\* C19: when run has ended without a reply its reply sender is dropped and
\* never still held, so a caller waiting on the reply channel gets the reply
\* or sees the channel closed.
C19_ReplySenderReleased ==
    \A r \in LoadRequests :
        /\ [](Ended(r) => reply_tx[r] # "held")
        /\ []((pc[r] = "returned" /\ result[r] # "Ok" /\ final_response[r] = NoText)
                 => (reply_tx[r] = "dropped" /\ replies[r] = <<>>))
        /\ (Ended(r) /\ reply_rx[r] = "open")
              ~> (reply_rx[r] \in {"received", "closed"})

C19_Witness ==
    \E r \in LoadRequests :
        /\ pc[r] = "returned"
        /\ result[r] = "Err(prompt)"
        /\ reply_rx[r] = "closed"

\* The step is a call of op on id by client r.
CalledOn(r, op, id) == calls'[r] = Append(calls[r], <<op, id>>)

\* C13: once register(h) has returned contains(h) is true, for every reader,
\* until a call of unregister(h); once unregister(h) has returned it is
\* false; calls on other ids never change it.
C13_ReadAfterWrite ==
    [][\A id \in Handles :
          /\ (\E r \in Requests : CalledOn(r, "register", id))
                => is_research_session(active_sessions', id)
          /\ (\E r \in Requests : CalledOn(r, "unregister", id))
                => ~is_research_session(active_sessions', id)
          /\ (\A r \in Requests : ~CalledOn(r, "register", id)
                                  /\ ~CalledOn(r, "unregister", id))
                => (is_research_session(active_sessions', id)
                       = is_research_session(active_sessions, id))]_vars

C13_Witness ==
    \E r, s \in Requests :
        /\ r # s
        /\ calls[r] = <<<<"register", NewSessionId(r)>>,
                        <<"unregister", NewSessionId(r)>>>>
        /\ calls[s] = <<<<"register", NewSessionId(s)>>>>
        /\ active_sessions = {NewSessionId(s)}

\* C14: unregister of an id that is absent (never registered, or already
\* unregistered) leaves the registry as it was, and unregistering again
\* after an unregister changes nothing more.
C14_UnregisterIdempotent ==
    [][\A r \in Requests, id \in Handles :
          CalledOn(r, "unregister", id) =>
              /\ ~is_research_session(active_sessions, id)
                    => active_sessions' = active_sessions
              /\ unregister_session(active_sessions', id) = active_sessions'
              /\ \A other \in Handles \ {id} :
                    is_research_session(active_sessions', other)
                       = is_research_session(active_sessions, other)]_vars

C14_Witness ==
    \E r, s \in Requests :
        /\ r # s
        /\ calls[r] = <<<<"unregister", NewSessionId(r)>>,
                        <<"unregister", NewSessionId(r)>>>>
        /\ calls[s] = <<<<"register", NewSessionId(s)>>>>
        /\ active_sessions = {NewSessionId(s)}

====
